---- MODULE Spec2Model ----
(***************************************************************************)
(* Model of the car-app record store and of its two loan handlers,         *)
(* getNextLoanPayment and getLoanDetails (convex cars.ts / expenses.ts).   *)
(*                                                                         *)
(* Numbers.  Currency values are JavaScript doubles in the source.  Here a *)
(* currency value is an integer count of 1/Scale cent, and a product that  *)
(* is not a whole unit is rounded to the nearest unit (RoundDiv).          *)
(* Timestamps are milliseconds since 1970-01-01 UTC in the source; here a  *)
(* timestamp is a whole number of days since 1970-01-01 UTC, so the        *)
(* divisor 1000*60*60*24*30.44 ms becomes 30.44 days.  Interest rates are  *)
(* whole percents.  An optional field is <<>> when absent and <<v>> when   *)
(* it holds v.                                                             *)
(***************************************************************************)
EXTENDS Integers, Sequences, FiniteSets, TLC

VARIABLES cars, carShares, expenses, now, result, projector

vars == <<cars, carShares, expenses, now, result, projector>>

----------------------------------------------------------------------------
(* Bounds of the model *)

\* units per cent: the resolution of the currency arithmetic
Scale == 10
\* largest number of rows in the expenses table
MaxExpenses == 2
\* largest balance, in cents, the rounding is tried on
MaxRoundCents == 4
\* latest purchase date the installment schedule is tried on, in days since
\* 1970-01-01, and the longest loan term
MaxPurchaseDay == 58
MaxLoanTerm == 3
\* latest value of the clock, in days since 1970-01-01
MaxNow == 75

----------------------------------------------------------------------------
(* Optional values and small helpers *)

None == <<>>
Some(v) == <<v>>
Val(o) == o[1]

\* JavaScript truthiness of an optional number: undefined and 0 are falsy
Truthy(o) == o # None /\ Val(o) # 0

\* (o || d) on an optional number
OrElse(o, d) == IF Truthy(o) THEN Val(o) ELSE d

Max(a, b) == IF a >= b THEN a ELSE b
Min(a, b) == IF a <= b THEN a ELSE b

\* n / d rounded to the nearest unit, halves up (d > 0)
RoundDiv(n, d) == (2 * n + d) \div (2 * d)

Cents(c) == c * Scale
Dollars(d) == d * 100 * Scale

\* a currency value passed on as it is
RoundCentMissing(x) == x

\* a rounding that always moves up to the following cent
RoundCentNext(x) == ((x \div Scale) + 1) * Scale

\* Math.round(x * 100) / 100 on a currency value
RoundCent(x) == RoundDiv(x, Scale) * Scale

\* the 0.01 of "remainingBalance <= 0.01"
PaidOffThreshold == Cents(1)

\* 30.44 days, in hundredths of a day
AvgMonthDays100 == 3044

----------------------------------------------------------------------------
(* JavaScript Date in UTC, at day resolution *)

IsLeap(y) == (y % 4 = 0 /\ y % 100 # 0) \/ y % 400 = 0

\* months are 0..11 as in Date.getMonth
MonthLen(y, m) ==
    IF m = 1 THEN (IF IsLeap(y) THEN 29 ELSE 28)
    ELSE IF m \in {3, 5, 8, 10} THEN 30 ELSE 31

RECURSIVE DaysBeforeYear(_)
DaysBeforeYear(y) ==
    IF y <= 1970 THEN 0
    ELSE DaysBeforeYear(y - 1) + (IF IsLeap(y - 1) THEN 366 ELSE 365)

RECURSIVE DaysBeforeMonth(_, _)
DaysBeforeMonth(y, m) ==
    IF m = 0 THEN 0 ELSE DaysBeforeMonth(y, m - 1) + MonthLen(y, m - 1)

\* MakeDay of ECMAScript: month overflow carries into the year, day overflow
\* carries into the following months
MakeDay(y, m, d) ==
    LET ym == y + (m \div 12)
        mn == m % 12
    IN  DaysBeforeYear(ym) + DaysBeforeMonth(ym, mn) + (d - 1)

getFullYear(t) ==
    CHOOSE y \in 1970..1975 : DaysBeforeYear(y) <= t /\ t < DaysBeforeYear(y + 1)

getMonth(t) ==
    LET y == getFullYear(t)
        r == t - DaysBeforeYear(y)
    IN  CHOOSE m \in 0..11 :
            DaysBeforeMonth(y, m) <= r /\ r < DaysBeforeMonth(y, m) + MonthLen(y, m)

getDate(t) ==
    LET y == getFullYear(t)
    IN  t - DaysBeforeYear(y) - DaysBeforeMonth(y, getMonth(t)) + 1

\* d.setMonth(m): same year and day of month, month m, then normalised
setMonth(t, m) == MakeDay(getFullYear(t), m, getDate(t))

\* a key that tells the days of a month apart
monthKeyWithDay(t) == <<getFullYear(t), getMonth(t), getDate(t)>>

\* `${d.getFullYear()}-${d.getMonth()}`
monthKey(t) == <<getFullYear(t), getMonth(t)>>

----------------------------------------------------------------------------
(* The record store *)

Users == {"u1", "u2"}
\* getAuthUserId(ctx) === null
NoUser == "anonymous"
Callers == Users \cup {NoUser}
\* the callers of the mutations
Writers == {"u1"}

CarIds == {"c1"}

\* the make the creation form sends, and the one a later edit sends
MakeArgs == {"Honda", "Acura"}

\* the document createCar inserts: every optional field absent
\* (car.buyerAccessories || [] is the empty list)
NewCar(u) ==
    [ownerId |-> u, make |-> "Honda",
     loanAmount |-> None, loanTerm |-> None, interestRate |-> None,
     monthlyPayment |-> None, purchaseDate |-> None,
     isArchived |-> FALSE, archivedReason |-> "", buyerAccessories |-> <<>>]

\* access for the owner alone
HasAccessOwnerOnly(u, c) == cars[c].ownerId = u

\* car.ownerId === userId || carShares.withIndex("by_car_user", ...).unique()
HasAccess(u, c) ==
    \/ cars[c].ownerId = u
    \/ \E i \in DOMAIN carShares : carShares[i].carId = c /\ carShares[i].userId = u

\* the checks with the car looked up before the caller's identity
AccessErrorCarFirst(u, c) ==
    IF c \notin DOMAIN cars THEN "Car not found"
    ELSE IF u = NoUser THEN "Not authenticated"
    ELSE IF ~HasAccess(u, c) THEN "Access denied"
    ELSE ""

\* the checks every car handler opens with
AccessError(u, c) ==
    IF u = NoUser THEN "Not authenticated"
    ELSE IF c \notin DOMAIN cars THEN "Car not found"
    ELSE IF ~HasAccess(u, c) THEN "Access denied"
    ELSE ""

\* owner-only checks that let a user with shared access through
OwnerErrorShared(u, c, msg) ==
    IF u = NoUser THEN "Not authenticated"
    ELSE IF c \notin DOMAIN cars THEN "Car not found"
    ELSE IF ~HasAccess(u, c) THEN msg
    ELSE ""

\* the checks of an owner-only mutation, which throws msg for a non-owner
OwnerError(u, c, msg) ==
    IF u = NoUser THEN "Not authenticated"
    ELSE IF c \notin DOMAIN cars THEN "Car not found"
    ELSE IF cars[c].ownerId # u THEN msg
    ELSE ""

\* expenses.withIndex("by_car_category", carId, "loan_payment").collect():
\* the rows in index order, which within one key is creation order
LoanPaymentRows(c) ==
    SelectSeq(expenses, LAMBDA e : e.carId = c /\ e.category = "loan_payment")

----------------------------------------------------------------------------
(* loanPayments.sort((a, b) => a.date - b.date): Array.prototype.sort is     *)
(* stable, so rows of equal date keep their relative order                  *)

RECURSIVE InsertByDate(_, _)
InsertByDate(sorted, e) ==
    IF sorted = <<>> THEN <<e>>
    ELSE IF Head(sorted).date <= e.date
         THEN <<Head(sorted)>> \o InsertByDate(Tail(sorted), e)
         ELSE <<e>> \o sorted

\* the rows left in store order
SortByDateMissing(rows) == rows

RECURSIVE SortByDate(_)
SortByDate(rows) ==
    IF rows = <<>> THEN <<>>
    ELSE InsertByDate(SortByDate(SubSeq(rows, 1, Len(rows) - 1)), rows[Len(rows)])

----------------------------------------------------------------------------
(* The projector loop of getNextLoanPayment and getLoanDetails *)

\* currentBalance * monthlyInterestRate * monthsElapsed, with
\* monthlyInterestRate = rate / 100 / 12 and
\* monthsElapsed = Math.max(0, (date - lastPaymentDate) / (30.44 days))
InterestAccrued(balance, rate, date, lastPaymentDate) ==
    RoundDiv(balance * rate * Max(0, date - lastPaymentDate), 12 * AvgMonthDays100)

\* the balance left unclamped
ClampBalanceMissing(x) == x

\* Math.max(0, currentBalance - principalPortion)
ClampBalance(x) == Max(0, x)

\* a projector that adds the accrued interest to the balance and takes the
\* whole payment off it
ProjectStepCapitalising(currentBalance, lastPaymentDate, rate, payment) ==
    LET interestAccrued ==
            InterestAccrued(currentBalance, rate, payment.date, lastPaymentDate)
        interestPortion == Min(payment.amount, interestAccrued)
        principalPortion == Max(0, payment.amount - interestPortion)
    IN  [date |-> payment.date, amount |-> payment.amount,
         before |-> currentBalance,
         interestAccrued |-> interestAccrued,
         interestPortion |-> interestPortion,
         principalPortion |-> principalPortion,
         after |-> ClampBalance(currentBalance + interestAccrued - payment.amount)]

\* a projector with the two portions exchanged
ProjectStepSwapped(currentBalance, lastPaymentDate, rate, payment) ==
    LET interestAccrued ==
            InterestAccrued(currentBalance, rate, payment.date, lastPaymentDate)
        principalPortion == Min(payment.amount, interestAccrued)
        interestPortion == Max(0, payment.amount - principalPortion)
    IN  [date |-> payment.date, amount |-> payment.amount,
         before |-> currentBalance,
         interestAccrued |-> interestAccrued,
         interestPortion |-> interestPortion,
         principalPortion |-> principalPortion,
         after |-> ClampBalance(currentBalance - principalPortion)]

\* one iteration of the loop: the locals it computes
ProjectStep(currentBalance, lastPaymentDate, rate, payment) ==
    LET interestAccrued ==
            InterestAccrued(currentBalance, rate, payment.date, lastPaymentDate)
        interestPortion == Min(payment.amount, interestAccrued)
        principalPortion == Max(0, payment.amount - interestPortion)
    IN  [date |-> payment.date, amount |-> payment.amount,
         before |-> currentBalance,
         interestAccrued |-> interestAccrued,
         interestPortion |-> interestPortion,
         principalPortion |-> principalPortion,
         after |-> ClampBalance(currentBalance - principalPortion)]

RECURSIVE Project(_, _, _, _)
Project(currentBalance, lastPaymentDate, rate, payments) ==
    IF payments = <<>> THEN <<>>
    ELSE LET s == ProjectStep(currentBalance, lastPaymentDate, rate, Head(payments))
         IN  <<s>> \o Project(s.after, s.date, rate, Tail(payments))

\* a lastPaymentDate the loop never moves on from the anchor
EndDateAnchor(anchorDate, steps) == anchorDate

\* currentBalance and lastPaymentDate when the loop ends
EndBalance(openingBalance, steps) ==
    IF steps = <<>> THEN openingBalance ELSE steps[Len(steps)].after
EndDate(anchorDate, steps) ==
    IF steps = <<>> THEN anchorDate ELSE steps[Len(steps)].date

----------------------------------------------------------------------------
(* The next-payment locator *)

PaidMonths(payments) == {monthKey(payments[i].date) : i \in DOMAIN payments}

\* a due date counted from the purchase month itself
DueDateFromZero(purchaseDate, monthOffset) ==
    setMonth(purchaseDate, getMonth(purchaseDate) + monthOffset - 1)

\* the due date of installment monthOffset
DueDate(purchaseDate, monthOffset) ==
    setMonth(purchaseDate, getMonth(purchaseDate) + monthOffset)

\* the loop with monthOffset < loanTerm for its condition
RECURSIVE FirstUnpaidExclusive(_, _, _, _)
FirstUnpaidExclusive(purchaseDate, loanTerm, paidMonths, monthOffset) ==
    IF monthOffset >= loanTerm THEN 0
    ELSE IF monthKey(DueDate(purchaseDate, monthOffset)) \notin paidMonths
         THEN monthOffset
         ELSE FirstUnpaidExclusive(purchaseDate, loanTerm, paidMonths, monthOffset + 1)

\* the for loop over monthOffset: the first offset whose month is unpaid,
\* 0 when the loop ends without one (nextDueDate stays null)
RECURSIVE FirstUnpaid(_, _, _, _)
FirstUnpaid(purchaseDate, loanTerm, paidMonths, monthOffset) ==
    IF monthOffset > loanTerm THEN 0
    ELSE IF monthKey(DueDate(purchaseDate, monthOffset)) \notin paidMonths
         THEN monthOffset
         ELSE FirstUnpaid(purchaseDate, loanTerm, paidMonths, monthOffset + 1)

RECURSIVE SumAmounts(_)
SumAmounts(rows) ==
    IF rows = <<>> THEN 0 ELSE Head(rows).amount + SumAmounts(Tail(rows))

\* paymentDate > currentPeriodStart && paymentDate <= nextDueDate
InPeriod(date, currentPeriodStart, nextDueDate) ==
    date > currentPeriodStart /\ date <= nextDueDate

----------------------------------------------------------------------------
(* getNextLoanPayment: what the handler returns for an accessible car *)

\* a handler that returns nothing, or throws
Void == [void |-> TRUE]
\* return null
Null == [isNull |-> TRUE]

\* a default rate other than 0
RateDefaulted(car) == OrElse(car.interestRate, 12)

\* (car.interestRate || 0)
Rate(car) == OrElse(car.interestRate, 0)

\* !(!car.loanAmount || !car.monthlyPayment || !car.purchaseDate || !car.loanTerm)
NextHasLoanInfo(car) ==
    /\ Truthy(car.loanAmount)
    /\ Truthy(car.monthlyPayment)
    /\ Truthy(car.purchaseDate)
    /\ Truthy(car.loanTerm)

\* the projector loop of getNextLoanPayment, over the rows the store returned
NextSteps(car, rows) ==
    Project(Val(car.loanAmount), Val(car.purchaseDate), Rate(car), SortByDate(rows))

\* a balance test that never reports the loan paid off
IsPaidOffNever(remainingBalance) == FALSE

\* remainingBalance <= 0.01
IsPaidOffBalance(remainingBalance) == remainingBalance <= PaidOffThreshold

\* overdue from the due day itself on
IsOverdueInclusive(currentDate, dueDate) == currentDate >= dueDate

\* overdue on the due day alone
IsOverdueOnDueDay(currentDate, dueDate) == currentDate = dueDate

\* currentDate > nextDueDate, and currentDate > dueDate in getLoanDetails
IsOverdue(currentDate, dueDate) == currentDate > dueDate

\* the amount due without the cap at the remaining balance
AmountDueUncapped(remainingBalance, monthlyPayment, paidThisPeriod) ==
    Max(0, monthlyPayment - paidThisPeriod)

\* the amount due of the current period
AmountDue(remainingBalance, monthlyPayment, paidThisPeriod) ==
    IF remainingBalance < monthlyPayment
    THEN Max(0, remainingBalance - paidThisPeriod)
    ELSE Max(0, monthlyPayment - paidThisPeriod)

\* nextDueDate.setMonth(nextDueDate.getMonth() - 1)
PeriodStart(nextDueDate) == setMonth(nextDueDate, getMonth(nextDueDate) - 1)

PaidThisPeriod(loanPayments, nextDueDate) ==
    SumAmounts(SelectSeq(loanPayments,
        LAMBDA p : InPeriod(p.date, PeriodStart(nextDueDate), nextDueDate)))

NextLoanPaymentValue(car, rows, currentDate) ==
    IF ~NextHasLoanInfo(car) THEN Null
    ELSE
    LET loanPayments == SortByDate(rows)
        currentBalance == EndBalance(Val(car.loanAmount), NextSteps(car, rows))
        remainingBalance == RoundCent(currentBalance)
        paymentNumber == FirstUnpaid(Val(car.purchaseDate), Val(car.loanTerm),
                                     PaidMonths(loanPayments), 1)
        nextDueDate == DueDate(Val(car.purchaseDate), paymentNumber)
        paidThisPeriod == PaidThisPeriod(loanPayments, nextDueDate)
        amountDue == AmountDue(remainingBalance, Val(car.monthlyPayment), paidThisPeriod)
    IN  IF IsPaidOffBalance(remainingBalance)
        THEN [isNull |-> FALSE, isPaidOff |-> TRUE]
        ELSE IF paymentNumber = 0
        THEN [isNull |-> FALSE, isPaidOff |-> TRUE]
        ELSE [isNull |-> FALSE, isPaidOff |-> FALSE,
              nextDueDate |-> nextDueDate,
              monthlyPayment |-> Val(car.monthlyPayment),
              amountDue |-> RoundCent(amountDue),
              paidThisPeriod |-> RoundCent(paidThisPeriod),
              remainingBalance |-> remainingBalance,
              paymentNumber |-> paymentNumber,
              isOverdue |-> IsOverdue(currentDate, nextDueDate)]

----------------------------------------------------------------------------
(* getLoanDetails: what the handler returns for an accessible car *)

\* the guard of getLoanDetails with purchaseDate required as well
DetailsHasLoanInfoWithDate(car) ==
    /\ Truthy(car.loanAmount)
    /\ Truthy(car.monthlyPayment)
    /\ Truthy(car.loanTerm)
    /\ Truthy(car.purchaseDate)

\* !(!car.loanAmount || !car.monthlyPayment || !car.loanTerm)
DetailsHasLoanInfo(car) ==
    /\ Truthy(car.loanAmount)
    /\ Truthy(car.monthlyPayment)
    /\ Truthy(car.loanTerm)

\* let lastPaymentDate = car.purchaseDate || Date.now()
DetailsAnchor(car, currentDate) == OrElse(car.purchaseDate, currentDate)

\* the projector loop of getLoanDetails
DetailsSteps(car, rows, currentDate) ==
    Project(Val(car.loanAmount), DetailsAnchor(car, currentDate), Rate(car),
            SortByDate(rows))

\* the loop's split reported in place of the stored fields
ReportedPrincipalFromSplit(payment, step) == step.principalPortion

\* payment.principalAmount || 0 and payment.interestAmount || 0: the stored
\* fields of the row; step, the loop's locals for this payment, is not read
ReportedPrincipal(payment, step) == OrElse(payment.principalAmount, 0)
ReportedInterest(payment, step) == OrElse(payment.interestAmount, 0)

RECURSIVE SumReported(_, _, _)
SumReported(payments, steps, principal) ==
    IF payments = <<>> THEN 0
    ELSE (IF principal THEN ReportedPrincipal(Head(payments), Head(steps))
                       ELSE ReportedInterest(Head(payments), Head(steps)))
         + SumReported(Tail(payments), Tail(steps), principal)

\* monthsEarly of a loan that is paid off and has a purchase date
MonthsEarly(car, loanPayments, currentDate) ==
    LET lastPaymentDate ==
            IF Len(loanPayments) > 0 THEN loanPayments[Len(loanPayments)].date
            ELSE currentDate
        scheduledEndDate ==
            setMonth(Val(car.purchaseDate),
                     getMonth(Val(car.purchaseDate)) + Val(car.loanTerm))
        monthsDiff ==
            (getFullYear(scheduledEndDate) - getFullYear(lastPaymentDate)) * 12
            + (getMonth(scheduledEndDate) - getMonth(lastPaymentDate))
    IN  IF lastPaymentDate < scheduledEndDate THEN Max(0, monthsDiff) ELSE 0

LoanDetailsValue(car, rows, currentDate) ==
    IF ~DetailsHasLoanInfo(car) THEN Null
    ELSE
    LET loanPayments == SortByDate(rows)
        steps == DetailsSteps(car, rows, currentDate)
        currentBalance == EndBalance(Val(car.loanAmount), steps)
        lastPaymentDate == EndDate(DetailsAnchor(car, currentDate), steps)
        accruedInterestSinceLastPayment ==
            InterestAccrued(currentBalance, Rate(car), currentDate, lastPaymentDate)
        remainingBalance == RoundCent(currentBalance + accruedInterestSinceLastPayment)
        isPaidOff == IsPaidOffBalance(remainingBalance)
        locate == ~isPaidOff /\ Truthy(car.purchaseDate)
        paymentNumber ==
            IF locate
            THEN FirstUnpaid(Val(car.purchaseDate), Val(car.loanTerm),
                             PaidMonths(loanPayments), 1)
            ELSE 0
    IN  [isNull |-> FALSE,
         originalLoanAmount |-> Val(car.loanAmount),
         loanTerm |-> Val(car.loanTerm),
         interestRate |-> Rate(car),
         monthlyPayment |-> Val(car.monthlyPayment),
         totalPaid |-> RoundCent(SumAmounts(loanPayments)),
         totalPrincipal |-> RoundCent(SumReported(loanPayments, steps, TRUE)),
         totalInterest |-> RoundCent(SumReported(loanPayments, steps, FALSE)),
         remainingBalance |-> Max(0, remainingBalance),
         isPaidOff |-> isPaidOff,
         monthsEarly |->
            IF isPaidOff /\ Truthy(car.purchaseDate)
            THEN MonthsEarly(car, loanPayments, currentDate) ELSE 0,
         nextPaymentDate |->
            IF paymentNumber = 0 THEN None
            ELSE Some(DueDate(Val(car.purchaseDate), paymentNumber)),
         isOverdue |->
            paymentNumber # 0
            /\ IsOverdue(currentDate, DueDate(Val(car.purchaseDate), paymentNumber)),
         payments |->
            [i \in DOMAIN loanPayments |->
                [date |-> loanPayments[i].date,
                 amount |-> RoundCent(loanPayments[i].amount),
                 principalAmount |->
                    RoundCent(ReportedPrincipal(loanPayments[i], steps[i])),
                 interestAmount |->
                    RoundCent(ReportedInterest(loanPayments[i], steps[i]))]]]

----------------------------------------------------------------------------
(* Inputs of the requests *)

\* the loan of the running example, scaled: 100.00 at 12% over 3 months
BaseLoan ==
    [loanAmount |-> Some(Dollars(100)), loanTerm |-> Some(3),
     interestRate |-> Some(12), monthlyPayment |-> Some(Dollars(30))]

\* no loan, a negative amount, 100.00, and 100.00 and a fraction of a cent
LoanAmountArgs == {Some(0), Some(-Dollars(100)), Some(Dollars(100)), Some(Dollars(100) + 1)}
LoanTermArgs == {Some(0), Some(1), Some(3)}
InterestRateArgs == {None, Some(0), Some(12), Some(-12)}
\* 30.00, and 30.00 and a fraction of a cent
MonthlyPaymentArgs == {Some(0), Some(Dollars(30)), Some(Dollars(30) + (Scale \div 2) + 1)}

\* the arguments of updateCarLoanDetails: the base loan with at most one
\* field varied; the form sends every field but the optional interest rate
LoanArgs ==
    {[BaseLoan EXCEPT !.loanAmount = x] : x \in LoanAmountArgs}
    \cup {[BaseLoan EXCEPT !.loanTerm = x] : x \in LoanTermArgs}
    \cup {[BaseLoan EXCEPT !.interestRate = x] : x \in InterestRateArgs}
    \cup {[BaseLoan EXCEPT !.monthlyPayment = x] : x \in MonthlyPaymentArgs}

\* 1970-01-15, and the epoch itself, which is falsy
PurchaseDateArgs == {None, Some(0), Some(MakeDay(1970, 0, 15))}

Jan10 == MakeDay(1970, 0, 10)
Feb20 == MakeDay(1970, 1, 20)
Mar10 == MakeDay(1970, 2, 10)

NoSplit == [principalAmount |-> None, interestAmount |-> None]

\* the arguments of addExpense
ExpenseArgs ==
    {[category |-> "loan_payment", date |-> Feb20, amount |-> Cents(50) + 4] @@ NoSplit,
     [category |-> "loan_payment", date |-> Feb20, amount |-> -Cents(50)] @@ NoSplit,
     [category |-> "loan_payment", date |-> Feb20, amount |-> Dollars(100),
      principalAmount |-> Some(Dollars(99)), interestAmount |-> Some(Dollars(1) + 4)],
     [category |-> "loan_payment", date |-> Mar10, amount |-> Dollars(100)] @@ NoSplit,
     [category |-> "loan_payment", date |-> Jan10, amount |-> Dollars(100)] @@ NoSplit,
     [category |-> "fuel", date |-> Feb20, amount |-> Dollars(30)] @@ NoSplit}

\* the arguments of updateExpense, which carry no split
ExpensePatchArgs ==
    {[category |-> "loan_payment", date |-> Mar10, amount |-> Dollars(100)],
     [category |-> "fuel", date |-> Feb20, amount |-> Dollars(30)]}

\* the times at which requests arrive: 1970-02-15 at first, the due date of
\* the first installment of a car bought on 1970-01-15
NowStart == MakeDay(1970, 1, 15)
TickSteps == {30}

----------------------------------------------------------------------------
(* The state machine *)

\* the outcome of a request made at time now: error is the message thrown,
\* "" when none
Response(op, u, c, err, value) ==
    [op |-> op, caller |-> u, carId |-> c, at |-> now, error |-> err,
     value |-> value]

Init ==
    /\ cars = <<>>
    /\ carShares = <<>>
    /\ expenses = <<>>
    /\ now = NowStart
    /\ result = Response("none", NoUser, "", "", Void)
    /\ projector = <<>>

\* Date.now() moves on between requests
Tick(d) ==
    /\ now + d <= MaxNow
    /\ now' = now + d
    /\ UNCHANGED <<cars, carShares, expenses, result, projector>>

CreateCar(u) ==
    \E c \in CarIds \ DOMAIN cars :
        LET err == IF u = NoUser THEN "Not authenticated" ELSE ""
        IN  /\ cars' = IF err = "" THEN cars @@ (c :> NewCar(u)) ELSE cars
            /\ result' = Response("createCar", u, c, err, Void)
            /\ projector' = <<>>
            /\ UNCHANGED <<carShares, expenses, now>>

\* ctx.db.patch(carId, updateData): an argument the caller left out is no key
\* of updateData and leaves the field as it is
Patch(old, arg) == IF arg = None THEN old ELSE arg

UpdateCarLoanDetails(u, c, a) ==
    LET err == OwnerError(u, c, "Only the owner can update loan details")
    IN  /\ cars' =
            IF err # "" THEN cars
            ELSE [cars EXCEPT ![c] =
                    [@ EXCEPT !.loanAmount = Patch(@, a.loanAmount),
                              !.loanTerm = Patch(@, a.loanTerm),
                              !.interestRate = Patch(@, a.interestRate),
                              !.monthlyPayment = Patch(@, a.monthlyPayment)]]
        /\ result' = Response("updateCarLoanDetails", u, c, err, Void)
        /\ projector' = <<>>
        /\ UNCHANGED <<carShares, expenses, now>>

UpdateCarPurchaseDetails(u, c, purchaseDate) ==
    LET err == OwnerError(u, c, "Only the owner can update purchase details")
    IN  /\ cars' =
            IF err # "" THEN cars
            ELSE [cars EXCEPT ![c].purchaseDate = Patch(@, purchaseDate)]
        /\ result' = Response("updateCarPurchaseDetails", u, c, err, Void)
        /\ projector' = <<>>
        /\ UNCHANGED <<carShares, expenses, now>>

AddExpense(u, c, e) ==
    LET err == AccessError(u, c)
    IN  /\ Len(expenses) < MaxExpenses
        /\ expenses' =
            IF err # "" THEN expenses
            ELSE Append(expenses, [carId |-> c, userId |-> u] @@ e)
        /\ result' = Response("addExpense", u, c, err, Void)
        /\ projector' = <<>>
        /\ UNCHANGED <<cars, carShares, now>>

\* the checks updateExpense and deleteExpense open with; the expense id is
\* the row's place in creation order
ExpenseError(u, i) ==
    IF u = NoUser THEN "Not authenticated"
    ELSE IF i \notin DOMAIN expenses THEN "Expense not found"
    ELSE AccessError(u, expenses[i].carId)

\* an update that also clears the stored split of the row
UpdateExpenseClearingSplit(u, i, e) ==
    LET err == ExpenseError(u, i)
    IN  /\ expenses' =
            IF err # "" THEN expenses
            ELSE [expenses EXCEPT ![i] =
                    [@ EXCEPT !.category = e.category, !.amount = e.amount,
                              !.date = e.date, !.principalAmount = None,
                              !.interestAmount = None]]
        /\ result' = Response("updateExpense", u, "", err, Void)
        /\ projector' = <<>>
        /\ UNCHANGED <<cars, carShares, now>>

UpdateExpense(u, i, e) ==
    LET err == ExpenseError(u, i)
    IN  /\ expenses' =
            IF err # "" THEN expenses
            ELSE [expenses EXCEPT ![i] =
                    [@ EXCEPT !.category = e.category, !.amount = e.amount,
                              !.date = e.date]]
        /\ result' = Response("updateExpense", u, "", err, Void)
        /\ projector' = <<>>
        /\ UNCHANGED <<cars, carShares, now>>

DeleteExpense(u, i) ==
    LET err == ExpenseError(u, i)
    IN  /\ expenses' =
            IF err # "" THEN expenses
            ELSE SubSeq(expenses, 1, i - 1) \o SubSeq(expenses, i + 1, Len(expenses))
        /\ result' = Response("deleteExpense", u, "", err, Void)
        /\ projector' = <<>>
        /\ UNCHANGED <<cars, carShares, now>>

GetNextLoanPayment(u, c) ==
    LET err == AccessError(u, c)
        ran == err = "" /\ NextHasLoanInfo(cars[c])
    IN  /\ result' =
            Response("getNextLoanPayment", u, c, err,
                     IF err # "" THEN Void
                     ELSE NextLoanPaymentValue(cars[c], LoanPaymentRows(c), now))
        /\ projector' = IF ran THEN NextSteps(cars[c], LoanPaymentRows(c)) ELSE <<>>
        /\ UNCHANGED <<cars, carShares, expenses, now>>

\* a getLoanDetails that writes a split back to the payment rows
GetLoanDetailsStoringSplit(u, c) ==
    LET err == AccessError(u, c)
        ran == err = "" /\ DetailsHasLoanInfo(cars[c])
    IN  /\ result' =
            Response("getLoanDetails", u, c, err,
                     IF err # "" THEN Void
                     ELSE LoanDetailsValue(cars[c], LoanPaymentRows(c), now))
        /\ projector' =
            IF ran THEN DetailsSteps(cars[c], LoanPaymentRows(c), now) ELSE <<>>
        /\ expenses' =
            [i \in DOMAIN expenses |->
                IF ran /\ expenses[i].category = "loan_payment"
                THEN [expenses[i] EXCEPT !.principalAmount = Some(expenses[i].amount),
                                         !.interestAmount = Some(0)]
                ELSE expenses[i]]
        /\ UNCHANGED <<cars, carShares, now>>

GetLoanDetails(u, c) ==
    LET err == AccessError(u, c)
        ran == err = "" /\ DetailsHasLoanInfo(cars[c])
    IN  /\ result' =
            Response("getLoanDetails", u, c, err,
                     IF err # "" THEN Void
                     ELSE LoanDetailsValue(cars[c], LoanPaymentRows(c), now))
        /\ projector' =
            IF ran THEN DetailsSteps(cars[c], LoanPaymentRows(c), now) ELSE <<>>
        /\ UNCHANGED <<cars, carShares, expenses, now>>

\* getCar: the car document
GetCar(u, c) ==
    LET err == AccessError(u, c)
    IN  /\ result' = Response("getCar", u, c, err,
                              IF err # "" THEN Void ELSE [car |-> cars[c]])
        /\ projector' = <<>>
        /\ UNCHANGED <<cars, carShares, expenses, now>>

\* updateCarBasicInfo, open to the owner and to users with shared access
UpdateCarBasicInfo(u, c, make) ==
    LET err == AccessError(u, c)
    IN  /\ cars' = IF err # "" THEN cars ELSE [cars EXCEPT ![c].make = make]
        /\ result' = Response("updateCarBasicInfo", u, c, err, Void)
        /\ projector' = <<>>
        /\ UNCHANGED <<carShares, expenses, now>>

ArchiveReasonArgs == {"traded_in"}

\* the patch the three archiving mutations share: isArchived: true and
\* their archivedReason
Archived(car, reason) ==
    [car EXCEPT !.isArchived = TRUE, !.archivedReason = reason]

ArchiveCar(u, c, reason) ==
    LET err == OwnerError(u, c, "Only the owner can archive this car")
    IN  /\ cars' = IF err # "" THEN cars
                   ELSE [cars EXCEPT ![c] = Archived(@, reason)]
        /\ result' = Response("archiveCar", u, c, err, Void)
        /\ projector' = <<>>
        /\ UNCHANGED <<carShares, expenses, now>>

MarkCarAsTotaled(u, c) ==
    LET err == OwnerError(u, c, "Only the owner can mark this car as totaled")
    IN  /\ cars' = IF err # "" THEN cars
                   ELSE [cars EXCEPT ![c] = Archived(@, "totaled")]
        /\ result' = Response("markCarAsTotaled", u, c, err, Void)
        /\ projector' = <<>>
        /\ UNCHANGED <<carShares, expenses, now>>

MarkCarAsSold(u, c) ==
    LET err == OwnerError(u, c, "Only the owner can mark this car as sold")
    IN  /\ cars' = IF err # "" THEN cars
                   ELSE [cars EXCEPT ![c] = Archived(@, "sold")]
        /\ result' = Response("markCarAsSold", u, c, err, Void)
        /\ projector' = <<>>
        /\ UNCHANGED <<carShares, expenses, now>>

\* an e-mail address no user has
NoSuchUser == "nobody"
\* the users shareCar and unshareCar name: the users who create no car, and
\* an unknown one
ShareTargets == (Users \ Writers) \cup {NoSuchUser}

\* carShares.withIndex("by_car_user", ...) has a row of car c and user t
HasShare(c, t) ==
    \E i \in DOMAIN carShares : carShares[i].carId = c /\ carShares[i].userId = t

\* what shareCar and unshareCar answer with: nothing; the record keeps the
\* user the request named
ShareResponse(t) == [void |-> TRUE, target |-> t]

\* a shareCar that inserts without looking for a row of the pair
ShareCarUnchecked(u, c, t) ==
    LET owner == OwnerError(u, c, "Only the owner can share this car")
        err == IF owner # "" THEN owner
               ELSE IF t \notin Users THEN "User not found"
               ELSE ""
    IN  /\ carShares' =
            IF err # "" THEN carShares
            ELSE Append(carShares, [carId |-> c, userId |-> t, sharedBy |-> u])
        /\ result' = Response("shareCar", u, c, err, ShareResponse(t))
        /\ projector' = <<>>
        /\ UNCHANGED <<cars, expenses, now>>

ShareCar(u, c, t) ==
    LET owner == OwnerError(u, c, "Only the owner can share this car")
        err == IF owner # "" THEN owner
               ELSE IF t \notin Users THEN "User not found"
               ELSE IF HasShare(c, t) THEN "Car is already shared with this user"
               ELSE ""
    IN  /\ carShares' =
            IF err # "" THEN carShares
            ELSE Append(carShares, [carId |-> c, userId |-> t, sharedBy |-> u])
        /\ result' = Response("shareCar", u, c, err, ShareResponse(t))
        /\ projector' = <<>>
        /\ UNCHANGED <<cars, expenses, now>>

\* an unshareCar that deletes nothing
UnshareCarKeeping(u, c, t) ==
    LET err == OwnerError(u, c, "Only the owner can unshare this car")
    IN  /\ result' = Response("unshareCar", u, c, err, ShareResponse(t))
        /\ projector' = <<>>
        /\ UNCHANGED <<cars, carShares, expenses, now>>

UnshareCar(u, c, t) ==
    LET err == OwnerError(u, c, "Only the owner can unshare this car")
    IN  /\ carShares' =
            IF err # "" THEN carShares
            ELSE SelectSeq(carShares, LAMBDA r : ~(r.carId = c /\ r.userId = t))
        /\ result' = Response("unshareCar", u, c, err, ShareResponse(t))
        /\ projector' = <<>>
        /\ UNCHANGED <<cars, expenses, now>>

RECURSIVE Reverse(_)
Reverse(seq) ==
    IF seq = <<>> THEN <<>> ELSE Reverse(Tail(seq)) \o <<Head(seq)>>

\* getCarExpenses: the rows of the car by date, latest first
GetCarExpenses(u, c) ==
    LET err == AccessError(u, c)
    IN  /\ result' =
            Response("getCarExpenses", u, c, err,
                     IF err # "" THEN Void
                     ELSE [rows |-> Reverse(SortByDate(
                                SelectSeq(expenses, LAMBDA e : e.carId = c)))])
        /\ projector' = <<>>
        /\ UNCHANGED <<cars, carShares, expenses, now>>

Next ==
    \/ \E d \in TickSteps : Tick(d)
    \/ \E u \in Writers : CreateCar(u)
    \/ \E u \in Writers, c \in CarIds, a \in LoanArgs : UpdateCarLoanDetails(u, c, a)
    \/ \E u \in Writers, c \in CarIds, d \in PurchaseDateArgs :
            UpdateCarPurchaseDetails(u, c, d)
    \/ \E u \in Writers, c \in CarIds, e \in ExpenseArgs : AddExpense(u, c, e)
    \/ \E u \in Writers, i \in 1..MaxExpenses, e \in ExpensePatchArgs :
            UpdateExpense(u, i, e)
    \/ \E u \in Writers, i \in 1..MaxExpenses : DeleteExpense(u, i)
    \/ \E u \in Writers, c \in CarIds : GetNextLoanPayment(u, c)
    \/ \E u \in Writers, c \in CarIds : GetLoanDetails(u, c)

Spec == Init /\ [][Next]_vars

----------------------------------------------------------------------------
(* The store under every caller: owner, shared user, stranger, anonymous *)

\* the inputs of the requests, one loan and a few rows
AccessLoanArgs == {BaseLoan}
AccessPurchaseDateArgs == {Some(MakeDay(1970, 0, 15))}
AccessExpenseArgs ==
    {[category |-> "loan_payment", date |-> Feb20, amount |-> Dollars(30)] @@ NoSplit}

NextAccess ==
    \/ \E u \in Writers : CreateCar(u)
    \/ \E u \in Callers, c \in CarIds, a \in AccessLoanArgs :
            UpdateCarLoanDetails(u, c, a)
    \/ \E u \in Callers, c \in CarIds, d \in AccessPurchaseDateArgs :
            UpdateCarPurchaseDetails(u, c, d)
    \/ \E u \in Callers, c \in CarIds, make \in MakeArgs : UpdateCarBasicInfo(u, c, make)
    \/ \E u \in Callers, c \in CarIds, reason \in ArchiveReasonArgs :
            ArchiveCar(u, c, reason)
    \/ \E u \in Callers, c \in CarIds : MarkCarAsTotaled(u, c)
    \/ \E u \in Callers, c \in CarIds : MarkCarAsSold(u, c)
    \/ \E u \in Callers, c \in CarIds, t \in ShareTargets : ShareCar(u, c, t)
    \/ \E u \in Callers, c \in CarIds, t \in ShareTargets : UnshareCar(u, c, t)
    \/ \E u \in Callers, c \in CarIds, e \in AccessExpenseArgs : AddExpense(u, c, e)
    \/ \E u \in Callers, c \in CarIds : GetCar(u, c)
    \/ \E u \in Callers, c \in CarIds : GetCarExpenses(u, c)
    \/ \E u \in Callers, c \in CarIds : GetNextLoanPayment(u, c)
    \/ \E u \in Callers, c \in CarIds : GetLoanDetails(u, c)

SpecAccess == Init /\ [][NextAccess]_vars

----------------------------------------------------------------------------
(* Properties of the loan handlers *)

\* the last request was a loan query that returned (did not throw)
NextReturned == result.op = "getNextLoanPayment" /\ result.error = ""
DetailsReturned == result.op = "getLoanDetails" /\ result.error = ""
\* ... and ran the projector loop; projector then holds the loop's locals
NextRan == NextReturned /\ ~result.value.isNull
DetailsRan == DetailsReturned /\ ~result.value.isNull
LoopRan == NextRan \/ DetailsRan

\* the car of the last loan query, and its loan payment rows, read from
\* the expenses table directly
QCar == cars[result.carId]
QPayments ==
    SelectSeq(expenses,
        LAMBDA e : e.carId = result.carId /\ e.category = "loan_payment")

\* C1 (as claimed): in the projector loop of either handler, for any opening
\* loanAmount and any payments, the balance after each payment is at most
\* the balance before it.
C1_BalanceNonIncreasing_AnyOpening ==
    LoopRan =>
        \A i \in DOMAIN projector : projector[i].after <= projector[i].before

\* C1 (amended): for an opening loanAmount >= 0 the balance after each
\* payment is at most the balance before it.
C1_BalanceNonIncreasing ==
    (LoopRan /\ projector # <<>> /\ projector[1].before >= 0) =>
        \A i \in DOMAIN projector : projector[i].after <= projector[i].before

\* C1 witness: a loop over two payments of a positive loan, one of them
\* smaller than the interest accrued (balance unchanged), one reducing it
C1_Witness ==
    /\ LoopRan
    /\ Len(projector) = 2
    /\ projector[1].before > 0
    /\ \E i \in DOMAIN projector :
            /\ projector[i].interestAccrued > projector[i].amount
            /\ projector[i].amount > 0
    /\ \E i \in DOMAIN projector : projector[i].after < projector[i].before

\* C2 (as claimed): with interestRate 0 or missing, every payment's
\* principalPortion is its amount and its interestPortion is 0, whatever
\* the amounts and dates.
C2_ZeroRateAllPrincipal_AnyAmount ==
    (LoopRan /\ (QCar.interestRate = None \/ QCar.interestRate = Some(0))) =>
        \A i \in DOMAIN projector :
            /\ projector[i].principalPortion = projector[i].amount
            /\ projector[i].interestPortion = 0

\* C2 (amended): with interestRate 0 or missing, every payment of amount
\* >= 0 has principalPortion equal to its amount and interestPortion 0.
C2_ZeroRateAllPrincipal ==
    (LoopRan /\ (QCar.interestRate = None \/ QCar.interestRate = Some(0))) =>
        \A i \in DOMAIN projector :
            projector[i].amount >= 0 =>
                /\ projector[i].principalPortion = projector[i].amount
                /\ projector[i].interestPortion = 0

\* C2 witness: a loop at a missing rate over a positive payment made after
\* the anchor date, on a positive balance
C2_Witness ==
    /\ NextRan
    /\ QCar.interestRate = None
    /\ \E i \in DOMAIN projector :
            /\ projector[i].amount > 0
            /\ projector[i].before > 0
            /\ projector[i].date > Val(QCar.purchaseDate)

\* purchaseDate plus k calendar months, with month rollover
PlusMonths(t, k) == MakeDay(getFullYear(t), getMonth(t) + k, getDate(t))

\* some recorded loan payment falls in the calendar month of date t
MonthHasPayment(t) ==
    \E i \in DOMAIN QPayments :
        /\ getFullYear(QPayments[i].date) = getFullYear(t)
        /\ getMonth(QPayments[i].date) = getMonth(t)

\* C3: when getNextLoanPayment returns isPaidOff false, paymentNumber is
\* the smallest k in 1..loanTerm whose month (purchaseDate plus k months)
\* holds no recorded loan payment, and nextDueDate is that date.
C3_NextDueIsFirstUnpaidMonth ==
    (NextRan /\ ~result.value.isPaidOff) =>
        LET k == result.value.paymentNumber
            purchaseDate == Val(QCar.purchaseDate)
        IN  /\ k \in 1..Val(QCar.loanTerm)
            /\ ~MonthHasPayment(PlusMonths(purchaseDate, k))
            /\ \A j \in 1..(k - 1) : MonthHasPayment(PlusMonths(purchaseDate, j))
            /\ result.value.nextDueDate = PlusMonths(purchaseDate, k)

\* C3 witness: installment 2 is next due, a later one being unpaid as well
C3_Witness ==
    /\ NextRan
    /\ ~result.value.isPaidOff
    /\ result.value.paymentNumber = 2
    /\ Val(QCar.loanTerm) = 3
    /\ ~MonthHasPayment(PlusMonths(Val(QCar.purchaseDate), 3))

\* every installment month 1..loanTerm holds a recorded loan payment
AllMonthsCovered ==
    \A k \in 1..Val(QCar.loanTerm) :
        MonthHasPayment(PlusMonths(Val(QCar.purchaseDate), k))

\* the loop's final currentBalance
QEndBalance ==
    IF projector = <<>> THEN Val(QCar.loanAmount)
    ELSE projector[Len(projector)].after

Missing(o) == o = None
MissingOrZero(o) == o = None \/ o = Some(0)

\* C5 (as claimed): both handlers return null exactly when the car lacks
\* loanAmount, monthlyPayment, loanTerm or purchaseDate.
C5_NullIffAnyFieldMissing ==
    (NextReturned \/ DetailsReturned) =>
        (result.value.isNull <=>
            (\/ Missing(QCar.loanAmount)
             \/ Missing(QCar.monthlyPayment)
             \/ Missing(QCar.loanTerm)
             \/ Missing(QCar.purchaseDate)))

\* C5 (amended): getNextLoanPayment returns null exactly when loanAmount,
\* monthlyPayment, loanTerm or purchaseDate is missing or 0; getLoanDetails
\* returns null exactly when loanAmount, monthlyPayment or loanTerm is
\* missing or 0, and with these set returns a result without a purchaseDate,
\* its nextPaymentDate being null.
C5_NullIffFieldMissingOrZero ==
    /\ NextReturned =>
        (result.value.isNull <=>
            (\/ MissingOrZero(QCar.loanAmount)
             \/ MissingOrZero(QCar.monthlyPayment)
             \/ MissingOrZero(QCar.loanTerm)
             \/ MissingOrZero(QCar.purchaseDate)))
    /\ DetailsReturned =>
        /\ result.value.isNull <=>
            (\/ MissingOrZero(QCar.loanAmount)
             \/ MissingOrZero(QCar.monthlyPayment)
             \/ MissingOrZero(QCar.loanTerm))
        /\ (~result.value.isNull /\ MissingOrZero(QCar.purchaseDate)) =>
                result.value.nextPaymentDate = None

\* C5 witness: getLoanDetails returns a result for a car without a
\* purchaseDate
C5_Witness ==
    /\ DetailsReturned
    /\ ~result.value.isNull
    /\ Missing(QCar.purchaseDate)

\* C5 witness of the null cases: getNextLoanPayment returns null for a car
\* whose loanTerm is 0
C5_WitnessNull ==
    /\ NextReturned
    /\ result.value.isNull
    /\ QCar.loanTerm = Some(0)
    /\ Truthy(QCar.purchaseDate)

\* the loan's only recorded payment pays the opening loanAmount
SinglePayoffPayment ==
    /\ Len(QPayments) = 1
    /\ QPayments[1].amount = Val(QCar.loanAmount)

\* what the handler reports as paid off with nothing owed
ReportsPaidOff ==
    IF result.op = "getLoanDetails"
    THEN result.value.isPaidOff /\ result.value.remainingBalance = 0
    ELSE result.value.isPaidOff

\* C6 (as claimed): a single payment of the opening loanAmount leaves a
\* balance that rounds to 0 and the loan is reported paid off, for any
\* interest rate and payment date.
C6_SinglePayoff_AnyRateAndDate ==
    (LoopRan /\ SinglePayoffPayment) => ReportsPaidOff

\* the date interest starts to accrue from: purchaseDate, or the time of
\* the getLoanDetails request when the car has none
QAnchor == IF Truthy(QCar.purchaseDate) THEN Val(QCar.purchaseDate) ELSE result.at

\* C6 (amended): a single payment of the opening loanAmount leaves a
\* balance of 0 and the loan is reported paid off when no interest accrued
\* before the payment: the rate is 0 or missing, or the payment is dated
\* no later than the anchor date.
C6_SinglePayoff ==
    (/\ LoopRan
     /\ SinglePayoffPayment
     /\ (\/ MissingOrZero(QCar.interestRate)
         \/ QPayments[1].date <= QAnchor)) => ReportsPaidOff

\* C6 witness: getLoanDetails after a payoff payment made later than the
\* purchase date, at a missing rate
C6_Witness ==
    /\ DetailsRan
    /\ SinglePayoffPayment
    /\ Missing(QCar.interestRate)
    /\ Truthy(QCar.purchaseDate)
    /\ QPayments[1].date > QAnchor
    /\ ReportsPaidOff

\* C6 witness for getNextLoanPayment: a payoff payment dated before the
\* purchase date at 12%
C6_WitnessNext ==
    /\ NextRan
    /\ SinglePayoffPayment
    /\ QCar.interestRate = Some(12)
    /\ QPayments[1].date < QAnchor
    /\ ReportsPaidOff

\* C7: the balance never goes negative: the loop's currentBalance after
\* every payment and the remainingBalance either handler returns are >= 0.
C7_BalanceNeverNegative ==
    /\ LoopRan => \A i \in DOMAIN projector : projector[i].after >= 0
    /\ (NextRan /\ ~result.value.isPaidOff) => result.value.remainingBalance >= 0
    /\ DetailsRan => result.value.remainingBalance >= 0

\* C7 witness: a payment larger than the balance it meets, which the clamp
\* stops at 0
C7_Witness ==
    /\ DetailsRan
    /\ \E i \in DOMAIN projector :
            /\ projector[i].before > 0
            /\ projector[i].before - projector[i].principalPortion < 0
            /\ projector[i].after = 0
    /\ result.value.remainingBalance = 0

\* the orders in which a store could hand back the rows of seq
Orders(seq) ==
    LET n == Len(seq)
        Bijections == {f \in [1..n -> 1..n] : \A i, j \in 1..n : f[i] = f[j] => i = j}
    IN  {[i \in 1..n |-> seq[f[i]]] : f \in Bijections}

\* the ending balance of the handler's loop had the store returned rows
EndBalanceFor(rows) ==
    EndBalance(Val(QCar.loanAmount),
               Project(Val(QCar.loanAmount), QAnchor, Rate(QCar), SortByDate(rows)))

\* C8 (as claimed): the ending balance is the same whatever order the store
\* returns the payment rows in, rows of equal date included.
C8_EndBalanceOrderFree_AnyDates ==
    LoopRan => \A rows \in Orders(QPayments) : EndBalanceFor(rows) = QEndBalance

DistinctDates(rows) ==
    \A i, j \in DOMAIN rows : rows[i].date = rows[j].date => i = j

\* C8 (amended): the ending balance is the same whatever order the store
\* returns the payment rows in, provided no two rows share a date; rows of
\* equal date are processed in store order and the balance can depend on it.
C8_EndBalanceOrderFree ==
    (LoopRan /\ DistinctDates(QPayments)) =>
        \A rows \in Orders(QPayments) : EndBalanceFor(rows) = QEndBalance

\* C8 witness: two payments stored latest first, which the sort reorders,
\* with interest accruing between them
C8_Witness ==
    /\ LoopRan
    /\ Len(QPayments) = 2
    /\ QPayments[1].date > QPayments[2].date
    /\ \A i \in DOMAIN projector : projector[i].interestAccrued > 0

\* the payments of the current period, summed from the table
QPaidThisPeriod ==
    LET due == result.value.nextDueDate
        start == PlusMonths(due, -1)
        InWindow(e) == start < e.date /\ e.date <= due
    IN  SumAmounts(SelectSeq(QPayments, InWindow))

QEffectivePayment ==
    IF result.value.remainingBalance < Val(QCar.monthlyPayment)
    THEN result.value.remainingBalance
    ELSE Val(QCar.monthlyPayment)

C9_WitnessCapped ==
    /\ NextRan
    /\ ~result.value.isPaidOff
    /\ result.value.remainingBalance < Val(QCar.monthlyPayment)
    /\ result.value.paidThisPeriod = 0
    /\ result.value.amountDue = result.value.remainingBalance

RECURSIVE SumField(_, _)
SumField(steps, field) ==
    IF steps = <<>> THEN 0 ELSE Head(steps)[field] + SumField(Tail(steps), field)

\* C10 (as claimed): the principalAmount and interestAmount getLoanDetails
\* reports for a payment are the projector's split of its amount, and
\* totalPrincipal and totalInterest are the sums of the projector's portions.
C10_ReportedSplitIsProjected ==
    DetailsRan =>
        /\ \A i \in DOMAIN projector :
            /\ result.value.payments[i].principalAmount
                    = RoundCent(projector[i].principalPortion)
            /\ result.value.payments[i].interestAmount
                    = RoundCent(projector[i].interestPortion)
        /\ result.value.totalPrincipal = RoundCent(SumField(projector, "principalPortion"))
        /\ result.value.totalInterest = RoundCent(SumField(projector, "interestPortion"))

\* the stored split of a row, 0 for an absent field
StoredPrincipal(e) == IF e.principalAmount = None THEN 0 ELSE Val(e.principalAmount)
StoredInterest(e) == IF e.interestAmount = None THEN 0 ELSE Val(e.interestAmount)

\* the rows of QPayments in the order getLoanDetails lists them
QListed == SortByDate(QPayments)

RECURSIVE SumStored(_, _)
SumStored(rows, principal) ==
    IF rows = <<>> THEN 0
    ELSE (IF principal THEN StoredPrincipal(Head(rows)) ELSE StoredInterest(Head(rows)))
         + SumStored(Tail(rows), principal)

\* C10 (amended): the principalAmount and interestAmount getLoanDetails
\* reports for a payment are the row's stored fields (0 when absent),
\* rounded to the cent, and totalPrincipal and totalInterest are the rounded
\* sums of the stored fields; the projector's split is not reported.
C10_ReportedSplitIsStored ==
    DetailsRan =>
        /\ Len(result.value.payments) = Len(QListed)
        /\ \A i \in DOMAIN QListed :
            /\ result.value.payments[i].principalAmount
                    = RoundCent(StoredPrincipal(QListed[i]))
            /\ result.value.payments[i].interestAmount
                    = RoundCent(StoredInterest(QListed[i]))
        /\ result.value.totalPrincipal = RoundCent(SumStored(QListed, TRUE))
        /\ result.value.totalInterest = RoundCent(SumStored(QListed, FALSE))

\* C10 witness: a listed payment whose stored split differs from the
\* projector's, beside one that stores none
C10_Witness ==
    /\ DetailsRan
    /\ Len(projector) = 2
    /\ \E i \in DOMAIN QListed :
            /\ QListed[i].principalAmount # None
            /\ StoredPrincipal(QListed[i]) # projector[i].principalPortion
            /\ result.value.payments[i].principalAmount = StoredPrincipal(QListed[i])
    /\ \E i \in DOMAIN QListed :
            /\ QListed[i].principalAmount = None
            /\ projector[i].principalPortion > 0
            /\ result.value.payments[i].principalAmount = 0

----------------------------------------------------------------------------
(* The two handlers compared *)

\* the date of the last payment the loop processed, the anchor when none
QLastPaymentDate ==
    IF projector = <<>> THEN QAnchor ELSE projector[Len(projector)].date

\* the loop's final balance with the interest accrued from the last payment
\* to the time of the request, rounded to the cent
QForwardBalance ==
    RoundCent(QEndBalance
              + InterestAccrued(QEndBalance, Rate(QCar), result.at, QLastPaymentDate))

\* C11 (as claimed): getLoanDetails decides isPaidOff from the projected
\* balance only, and getNextLoanPayment decides paid-off from month-bucket
\* coverage only, never from the balance.
C11_DisjointPaidOffSignals ==
    /\ DetailsRan => (result.value.isPaidOff <=> QForwardBalance <= Cents(1))
    /\ NextRan => (result.value.isPaidOff <=> AllMonthsCovered)

\* C11 (amended): getLoanDetails decides isPaidOff from the projected
\* balance only, coverage of every installment month never making it true;
\* getNextLoanPayment uses both signals: it reports paid off when the
\* rounded balance is <= 0.01, and otherwise exactly when every installment
\* month is covered.
C11_PaidOffSignals ==
    /\ DetailsRan => (result.value.isPaidOff <=> QForwardBalance <= Cents(1))
    /\ NextRan =>
        /\ RoundCent(QEndBalance) <= Cents(1) => result.value.isPaidOff
        /\ RoundCent(QEndBalance) > Cents(1) =>
                (result.value.isPaidOff <=> AllMonthsCovered)

\* C11 witness: getNextLoanPayment reports paid off from the balance while
\* an installment month has no payment
C11_Witness ==
    /\ NextRan
    /\ result.value.isPaidOff
    /\ RoundCent(QEndBalance) <= Cents(1)
    /\ Val(QCar.loanAmount) > 0
    /\ ~AllMonthsCovered

\* C11 witness for getLoanDetails: every installment month is covered and
\* the loan is not reported paid off
C11_WitnessDetails ==
    /\ DetailsRan
    /\ Truthy(QCar.purchaseDate)
    /\ AllMonthsCovered
    /\ ~result.value.isPaidOff
    /\ result.value.nextPaymentDate = None

\* the remainingBalance getNextLoanPayment computes for the car and the
\* payments of the last request (line 616), whether or not it returns it
QNextRemainingBalance ==
    RoundCent(EndBalance(Val(QCar.loanAmount), NextSteps(QCar, QPayments)))

\* the current time is later than the last payment (than the purchase date
\* when there is no payment)
TimePassedSinceLastPayment == result.at > QLastPaymentDate

\* C12 (as claimed): for the same car, payments and time, the
\* remainingBalance of getLoanDetails is >= the one getNextLoanPayment
\* computes, and equal when the rate is 0 or no time has passed since the
\* last payment.
C12_ForwardInterest_AnyLoan ==
    (DetailsRan /\ NextHasLoanInfo(QCar)) =>
        /\ result.value.remainingBalance >= QNextRemainingBalance
        /\ (MissingOrZero(QCar.interestRate) \/ ~TimePassedSinceLastPayment) =>
                result.value.remainingBalance = QNextRemainingBalance

\* C12 (amended): for a car with complete loan data and a purchase date,
\* the remainingBalance of getLoanDetails is max(0, b + interest accrued on
\* the loop's final balance from the last payment - the purchase date when
\* there is none - to the current time), b being the balance
\* getNextLoanPayment computes before rounding; it is >= the
\* remainingBalance getNextLoanPayment computes when the rate is >= 0, and
\* equal to the larger of it and 0 when the rate is 0 or missing or the
\* current time is not later than the last payment.
C12_ForwardInterest ==
    (DetailsRan /\ NextHasLoanInfo(QCar)) =>
        /\ result.value.remainingBalance = Max(0, QForwardBalance)
        /\ OrElse(QCar.interestRate, 0) >= 0 =>
                result.value.remainingBalance >= QNextRemainingBalance
        /\ (MissingOrZero(QCar.interestRate) \/ ~TimePassedSinceLastPayment) =>
                result.value.remainingBalance = Max(0, QNextRemainingBalance)

\* C12 witness: interest accrued since the last payment makes the balance
\* of getLoanDetails larger than the one getNextLoanPayment computes
C12_Witness ==
    /\ DetailsRan
    /\ NextHasLoanInfo(QCar)
    /\ Len(QPayments) > 0
    /\ TimePassedSinceLastPayment
    /\ result.value.remainingBalance > QNextRemainingBalance
    /\ QNextRemainingBalance > 0

\* C12 witness of the equality: a positive rate and a last payment dated
\* at or after the current time
C12_WitnessEqual ==
    /\ DetailsRan
    /\ NextHasLoanInfo(QCar)
    /\ OrElse(QCar.interestRate, 0) > 0
    /\ Len(QPayments) > 0
    /\ ~TimePassedSinceLastPayment
    /\ result.value.remainingBalance = QNextRemainingBalance
    /\ QNextRemainingBalance > 0

\* C13: in a getNextLoanPayment result with isPaidOff false, isOverdue is
\* true exactly when the time of the request is strictly later than
\* nextDueDate; at the due date itself the payment is not overdue.
C13_OverdueIffAfterDue ==
    (NextRan /\ ~result.value.isPaidOff) =>
        (result.value.isOverdue <=> result.at > result.value.nextDueDate)

\* C13 witness: a request made at the due date itself
C13_Witness ==
    /\ NextRan
    /\ ~result.value.isPaidOff
    /\ result.at = result.value.nextDueDate
    /\ ~result.value.isOverdue

\* C13 witness of an overdue installment
C13_WitnessOverdue ==
    /\ NextRan
    /\ ~result.value.isPaidOff
    /\ result.at > result.value.nextDueDate
    /\ result.value.isOverdue

----------------------------------------------------------------------------
(* The locator and the month buckets *)

\* the (year, month) buckets of a payment history
Buckets(rows) ==
    {<<getFullYear(rows[i].date), getMonth(rows[i].date)>> : i \in DOMAIN rows}

\* payment histories to compare with the recorded one: up to two payments,
\* on different days of January, February and March, small or large
HistoryRows ==
    [date : {Jan10, MakeDay(1970, 1, 15), Feb20, Mar10, MakeDay(1970, 2, 15)},
     amount : {Cents(50), Dollars(100)}]
Histories ==
    {<<>>} \cup {<<r>> : r \in HistoryRows}
           \cup {<<r, q>> : r \in HistoryRows, q \in HistoryRows}

\* what getNextLoanPayment returns for the car and time of the last request
\* had rows been the recorded payments
QNextValueFor(rows) == NextLoanPaymentValue(QCar, rows, result.at)

\* C14 (as claimed): two payment histories with the same set of
\* (year, month) buckets give the same paymentNumber and nextDueDate,
\* whatever the payments' order, day of month, amounts or count per bucket.
C14_NextDueFromBuckets_AnyAmounts ==
    (NextRan /\ ~result.value.isPaidOff) =>
        \A rows \in Histories :
            Buckets(rows) = Buckets(QPayments) =>
                /\ ~QNextValueFor(rows).isPaidOff
                /\ QNextValueFor(rows).paymentNumber = result.value.paymentNumber
                /\ QNextValueFor(rows).nextDueDate = result.value.nextDueDate

\* C14 (amended): two payment histories with the same set of (year, month)
\* buckets, for both of which getNextLoanPayment returns isPaidOff false,
\* give the same paymentNumber and nextDueDate, whatever the payments'
\* order, day of month, amounts or count per bucket; the amounts decide
\* through the projected balance whether a next-due installment is returned
\* at all.
C14_NextDueFromBuckets ==
    (NextRan /\ ~result.value.isPaidOff) =>
        \A rows \in Histories :
            (Buckets(rows) = Buckets(QPayments) /\ ~QNextValueFor(rows).isPaidOff) =>
                /\ QNextValueFor(rows).paymentNumber = result.value.paymentNumber
                /\ QNextValueFor(rows).nextDueDate = result.value.nextDueDate

\* C14 witness: months 1 and 2 recorded latest first, and a history of
\* other days and another count with the same buckets; month 3 is due
C14_Witness ==
    /\ NextRan
    /\ ~result.value.isPaidOff
    /\ result.value.paymentNumber = 3
    /\ Len(QPayments) = 2
    /\ QPayments[1].date > QPayments[2].date
    /\ \E rows \in Histories :
            /\ Buckets(rows) = Buckets(QPayments)
            /\ rows[1].date < rows[2].date
            /\ \A i \in DOMAIN rows : \A j \in DOMAIN QPayments :
                    rows[i].date # QPayments[j].date
            /\ ~QNextValueFor(rows).isPaidOff
            /\ QNextValueFor(rows).paymentNumber = 3

----------------------------------------------------------------------------
(* Rounding of the currency fields *)

\* a whole number of cents
WholeCents(x) == x % Scale = 0

\* the rounded fields of a getNextLoanPayment result
NextRoundedFields ==
    /\ WholeCents(result.value.amountDue)
    /\ WholeCents(result.value.paidThisPeriod)
    /\ WholeCents(result.value.remainingBalance)

\* the rounded fields of a getLoanDetails result
DetailsRoundedFields ==
    /\ WholeCents(result.value.totalPaid)
    /\ WholeCents(result.value.totalPrincipal)
    /\ WholeCents(result.value.totalInterest)
    /\ WholeCents(result.value.remainingBalance)
    /\ \A i \in DOMAIN result.value.payments :
            /\ WholeCents(result.value.payments[i].amount)
            /\ WholeCents(result.value.payments[i].principalAmount)
            /\ WholeCents(result.value.payments[i].interestAmount)

\* C15 (as claimed): every currency field of the two results, monthlyPayment
\* and originalLoanAmount included, is a whole number of cents for any
\* stored car and payment values.
C15_AllCurrencyFieldsWholeCents ==
    /\ (NextRan /\ ~result.value.isPaidOff) =>
            (NextRoundedFields /\ WholeCents(result.value.monthlyPayment))
    /\ DetailsRan =>
            /\ DetailsRoundedFields
            /\ WholeCents(result.value.monthlyPayment)
            /\ WholeCents(result.value.originalLoanAmount)

\* C15 (amended): amountDue, paidThisPeriod and remainingBalance of
\* getNextLoanPayment, and totalPaid, totalPrincipal, totalInterest,
\* remainingBalance and each payment's amount, principalAmount and
\* interestAmount of getLoanDetails, are whole numbers of cents for any
\* stored values; monthlyPayment (both results) and originalLoanAmount are
\* the stored car fields, returned as they are.
C15_RoundedFieldsWholeCents ==
    /\ (NextRan /\ ~result.value.isPaidOff) =>
            /\ NextRoundedFields
            /\ result.value.monthlyPayment = Val(QCar.monthlyPayment)
    /\ DetailsRan =>
            /\ DetailsRoundedFields
            /\ result.value.monthlyPayment = Val(QCar.monthlyPayment)
            /\ result.value.originalLoanAmount = Val(QCar.loanAmount)

\* C15 witness: getLoanDetails lists a payment stored with a fraction of a
\* cent, at a balance that is no whole number of cents before rounding
C15_Witness ==
    /\ DetailsRan
    /\ \E i \in DOMAIN QListed :
            /\ ~WholeCents(QListed[i].amount)
            /\ result.value.payments[i].amount = RoundDiv(QListed[i].amount, Scale) * Scale
    /\ ~WholeCents(QEndBalance)
    /\ result.value.remainingBalance > 0

\* C15 witness for getNextLoanPayment: an unrounded balance and a stored
\* monthlyPayment with a fraction of a cent
C15_WitnessNext ==
    /\ NextRan
    /\ ~result.value.isPaidOff
    /\ ~WholeCents(QEndBalance)
    /\ ~WholeCents(result.value.monthlyPayment)

----------------------------------------------------------------------------
(* Who may read and who may write *)

LoanQueries == {"getNextLoanPayment", "getLoanDetails"}

\* the caller of the last request owns its car, or a carShares row names both
QIsOwner == cars[result.carId].ownerId = result.caller
QIsShared ==
    {i \in DOMAIN carShares :
        carShares[i].carId = result.carId /\ carShares[i].userId = result.caller} # {}

\* C16: getNextLoanPayment and getLoanDetails return loan data only to the
\* car's owner or to a user with a carShares row for it; otherwise they
\* throw, in this precedence: no caller identity gives "Not authenticated",
\* then a missing car "Car not found", then a caller who is neither owner
\* nor shared "Access denied".
C16_LoanQueryAccess ==
    result.op \in LoanQueries =>
        /\ result.error =
            IF result.caller = NoUser THEN "Not authenticated"
            ELSE IF result.carId \notin DOMAIN cars THEN "Car not found"
            ELSE IF ~(QIsOwner \/ QIsShared) THEN "Access denied"
            ELSE ""
        /\ result.error # "" => result.value = Void

\* C16 witness: a user with shared access gets the loan details
C16_Witness ==
    /\ DetailsRan
    /\ result.caller \in Users
    /\ ~QIsOwner
    /\ QIsShared
    /\ result.value.originalLoanAmount = Dollars(100)

\* C16 witnesses of the three errors
C16_WitnessAnonymous ==
    /\ result.op \in LoanQueries
    /\ result.caller = NoUser
    /\ result.carId \notin DOMAIN cars
    /\ result.error = "Not authenticated"
C16_WitnessNoCar ==
    /\ result.op \in LoanQueries
    /\ result.caller \in Users
    /\ result.carId \notin DOMAIN cars
    /\ result.error = "Car not found"
C16_WitnessDenied ==
    /\ result.op \in LoanQueries
    /\ result.caller \in Users
    /\ result.carId \in DOMAIN cars
    /\ ~QIsOwner /\ ~QIsShared
    /\ result.error = "Access denied"

OwnerOnlyOps ==
    {"updateCarLoanDetails", "updateCarPurchaseDetails", "archiveCar",
     "markCarAsTotaled", "markCarAsSold", "shareCar", "unshareCar"}

\* C17: an owner-only mutation (updateCarLoanDetails,
\* updateCarPurchaseDetails, archiveCar, markCarAsTotaled, markCarAsSold,
\* shareCar, unshareCar) called by anyone but the car's owner, a user with
\* shared access included, throws and leaves cars and carShares unchanged.
C17_OwnerOnlyMutations ==
    [][(/\ result'.op \in OwnerOnlyOps
        /\ ~(/\ result'.carId \in DOMAIN cars
             /\ cars[result'.carId].ownerId = result'.caller))
            => (result'.error # "" /\ UNCHANGED <<cars, carShares>>)]_vars

\* C17 witness: a user with shared access is refused the loan update, and
\* the car still has no loan
C17_Witness ==
    /\ result.op = "updateCarLoanDetails"
    /\ result.caller \in Users
    /\ result.carId \in DOMAIN cars
    /\ ~QIsOwner
    /\ QIsShared
    /\ result.error = "Only the owner can update loan details"
    /\ cars[result.carId].loanAmount = None

\* C17 witness for sharing: a user with shared access is refused unshareCar
C17_WitnessUnshare ==
    /\ result.op = "unshareCar"
    /\ result.caller \in Users
    /\ result.carId \in DOMAIN cars
    /\ ~QIsOwner
    /\ QIsShared
    /\ result.error = "Only the owner can unshare this car"

\* C18: a call of getNextLoanPayment or getLoanDetails, whatever it returns
\* or throws, leaves every car, every expense row - the stored
\* principalAmount and interestAmount included - and every carShares row
\* unchanged.
C18_LoanQueriesReadOnly ==
    [][result'.op \in LoanQueries => UNCHANGED <<cars, carShares, expenses>>]_vars

\* C18 witness: getLoanDetails ran the projector for a user with shared
\* access over a row that stores no split, and the row still stores none
C18_Witness ==
    /\ DetailsRan
    /\ QIsShared
    /\ Len(projector) > 0
    /\ \A i \in DOMAIN projector : projector[i].principalPortion > 0
    /\ \A i \in DOMAIN QPayments :
            QPayments[i].principalAmount = None /\ QPayments[i].interestAmount = None

\* C18 witness of a query that throws, with rows in the store
C18_WitnessThrows ==
    /\ result.op \in LoanQueries
    /\ result.error = "Access denied"
    /\ Len(expenses) > 0

\* the loan payment rows of a table
LoanRowsOf(table) == SelectSeq(table, LAMBDA e : e.category = "loan_payment")

IsPrefix(a, b) == Len(a) <= Len(b) /\ SubSeq(b, 1, Len(a)) = a

Without(seq, i) == SubSeq(seq, 1, i - 1) \o SubSeq(seq, i + 1, Len(seq))

C19_WitnessDelete ==
    /\ result.op = "deleteExpense"
    /\ result.error = ""
    /\ expenses = <<>>

SharedOps ==
    {"getCar", "getNextLoanPayment", "getLoanDetails", "getCarExpenses",
     "updateCarBasicInfo"}

\* the last request was one of the shared operations, by a user who does
\* not own the car
QByNonOwner ==
    /\ result.op \in SharedOps
    /\ result.caller \in Users
    /\ result.carId \in DOMAIN cars
    /\ ~QIsOwner

\* C20: a non-owner u reads the car (getCar, getNextLoanPayment,
\* getLoanDetails, getCarExpenses) and updates its basic info exactly while
\* a carShares row (car, u) exists, failing with "Access denied" otherwise;
\* a completed unshareCar(car, u) leaves no such row, and a row for u
\* appears only by a successful shareCar naming u.
C20_SharedAccessIsShareRelation ==
    /\ [](QByNonOwner =>
            result.error = IF QIsShared THEN "" ELSE "Access denied")
    /\ [][/\ (result'.op = "unshareCar" /\ result'.error = "") =>
                ~\E i \in DOMAIN carShares' :
                    /\ carShares'[i].carId = result'.carId
                    /\ carShares'[i].userId = result'.value.target
          /\ \A c \in CarIds, u \in Users :
                (~HasShare(c, u) /\ \E i \in DOMAIN carShares' :
                        carShares'[i].carId = c /\ carShares'[i].userId = u)
                    => /\ result'.op = "shareCar"
                       /\ result'.error = ""
                       /\ result'.carId = c
                       /\ result'.value.target = u]_vars

\* C20 witness: a user who recorded an expense on the car while it was
\* shared with them is refused after the owner's unshareCar
C20_Witness ==
    /\ QByNonOwner
    /\ ~QIsShared
    /\ result.error = "Access denied"
    /\ \E i \in DOMAIN expenses :
            expenses[i].carId = result.carId /\ expenses[i].userId = result.caller

\* C20 witness of shared access in use: the user with shared access changed
\* the car's make
C20_WitnessShared ==
    /\ QByNonOwner
    /\ QIsShared
    /\ result.op = "updateCarBasicInfo"
    /\ result.error = ""
    /\ cars[result.carId].make = "Acura"

----------------------------------------------------------------------------
(* Math.round(x * 100) / 100 on its own: a balance is rounded, and the      *)
(* rounded balance is rounded again                                         *)

\* the balances tried: every value of the resolution from -MaxRoundCents to
\* MaxRoundCents cents
RoundInputs == (-Cents(MaxRoundCents))..Cents(MaxRoundCents)

InitRound ==
    /\ cars = <<>>
    /\ carShares = <<>>
    /\ expenses = <<>>
    /\ now = NowStart
    /\ projector = <<>>
    /\ \E x \in RoundInputs : result = [op |-> "balance", x |-> x]

\* const remainingBalance = Math.round(currentBalance * 100) / 100
RoundOnce ==
    /\ result.op = "balance"
    /\ result' = [op |-> "rounded", x |-> result.x, value |-> RoundCent(result.x)]
    /\ UNCHANGED <<cars, carShares, expenses, now, projector>>

\* the same rounding of the value it returned
RoundAgain ==
    /\ result.op = "rounded"
    /\ result' = [op |-> "roundedAgain", x |-> result.x, once |-> result.value,
                  value |-> RoundCent(result.value)]
    /\ UNCHANGED <<cars, carShares, expenses, now, projector>>

NextRound == RoundOnce \/ RoundAgain

SpecRound == InitRound /\ [][NextRound]_vars

\* C21: rounding to the nearest cent is a no-op on a value that is already
\* a whole number of cents, and so is idempotent: round(round(x)) = round(x)
\* for every balance x.
C21_RoundIdempotent ==
    /\ (result.op = "rounded" /\ result.x % Scale = 0) => result.value = result.x
    /\ result.op = "roundedAgain" => result.value = result.once

\* C21 witness: a negative balance with a fraction of a cent was moved by
\* the first rounding and not by the second
C21_Witness ==
    /\ result.op = "roundedAgain"
    /\ result.x < 0
    /\ result.x % Scale # 0
    /\ result.once # result.x
    /\ result.value = result.once

\* C21 witness of the no-op: a whole number of cents rounded
C21_WitnessWhole ==
    /\ result.op = "rounded"
    /\ result.x % Scale = 0
    /\ result.x # 0
    /\ result.value = result.x

----------------------------------------------------------------------------
(* The split of one payment *)

\* the interest accrued on balance at rate percent a year over the days
\* from d1 to d2, at 30.44 days a month
AccruedOver(balance, rate, d1, d2) ==
    RoundDiv(balance * rate * (IF d2 > d1 THEN d2 - d1 ELSE 0), 12 * 3044)

\* the date accrual runs from when the loop reaches step i
QAccrualStart(i) == IF i = 1 THEN QAnchor ELSE projector[i - 1].date

\* interestPortion + principalPortion = amount, principalPortion >= 0 and
\* interestPortion <= amount at step s
SplitsAmount(s) ==
    /\ s.interestPortion + s.principalPortion = s.amount
    /\ s.principalPortion >= 0
    /\ s.interestPortion <= s.amount

\* accrual restarts at the date of the payment before, on the balance that
\* payment left
AccrualRestarts(i) ==
    projector[i].interestAccrued =
        AccruedOver(projector[i].before, OrElse(QCar.interestRate, 0),
                    QAccrualStart(i), projector[i].date)

\* C22 (as claimed): every payment is split into interestPortion and
\* principalPortion that add up to its amount, with principalPortion >= 0
\* and interestPortion <= amount; a payment no larger than the interest
\* accrued leaves the balance unchanged, and accrual restarts at its date.
C22_SplitAndNoCarryForward_AnyOpening ==
    LoopRan =>
        \A i \in DOMAIN projector :
            /\ SplitsAmount(projector[i])
            /\ projector[i].interestAccrued >= projector[i].amount =>
                    projector[i].after = projector[i].before
            /\ AccrualRestarts(i)

\* C22 (amended): the same, the balance being unchanged by a payment no
\* larger than the interest accrued when the balance before it is >= 0; a
\* negative balance (a negative opening loanAmount) is raised to 0 by it.
C22_SplitAndNoCarryForward ==
    LoopRan =>
        \A i \in DOMAIN projector :
            /\ SplitsAmount(projector[i])
            /\ projector[i].interestAccrued >= projector[i].amount =>
                    projector[i].after = Max(0, projector[i].before)
            /\ AccrualRestarts(i)
            /\ i > 1 => projector[i].before = projector[i - 1].after

\* C22 witness: a first payment smaller than the interest accrued leaves
\* the balance as it was, and the second payment meets the interest of the
\* days since the first only
C22_Witness ==
    /\ LoopRan
    /\ Len(projector) = 2
    /\ projector[1].amount > 0
    /\ projector[1].interestAccrued > projector[1].amount
    /\ projector[1].after = projector[1].before
    /\ projector[2].date > projector[1].date
    /\ projector[2].interestAccrued > 0
    /\ projector[2].interestAccrued < projector[1].interestAccrued

----------------------------------------------------------------------------
(* The due dates of the installments on their own *)

InitDue ==
    /\ cars = <<>>
    /\ carShares = <<>>
    /\ expenses = <<>>
    /\ now = NowStart
    /\ projector = <<>>
    /\ \E d \in 0..MaxPurchaseDay, n \in 1..MaxLoanTerm :
            result = [op |-> "purchase", purchaseDate |-> d, loanTerm |-> n]

\* the dueDate of every pass of the loop over monthOffset, and its monthKey
Schedule ==
    /\ result.op = "purchase"
    /\ result' =
        [op |-> "schedule", purchaseDate |-> result.purchaseDate,
         loanTerm |-> result.loanTerm,
         dueDates |-> [k \in 1..result.loanTerm |-> DueDate(result.purchaseDate, k)],
         monthKeys |-> [k \in 1..result.loanTerm |->
                            monthKey(DueDate(result.purchaseDate, k))]]
    /\ UNCHANGED <<cars, carShares, expenses, now, projector>>

NextDue == Schedule

SpecDue == InitDue /\ [][NextDue]_vars

\* C23: for every purchaseDate and loanTerm, distinct installment numbers
\* k1 # k2 in 1..loanTerm have due dates (purchaseDate plus k months, with
\* month rollover) in distinct (year, month) buckets.
C23_InstallmentsInDistinctMonths ==
    result.op = "schedule" =>
        \A k1, k2 \in 1..result.loanTerm :
            k1 # k2 => result.monthKeys[k1] # result.monthKeys[k2]

----------------------------------------------------------------------------
(* Payments counted for the installment that is due *)

\* the recorded payments summed into paidThisPeriod of the last result
QPeriodPayments ==
    LET due == result.value.nextDueDate
        start == PlusMonths(due, -1)
    IN  {i \in DOMAIN QPayments : start < QPayments[i].date /\ QPayments[i].date <= due}

\* payment i lies in the (year, month) bucket of installment j
InBucketOf(i, j) ==
    LET due == PlusMonths(Val(QCar.purchaseDate), j)
    IN  /\ getFullYear(QPayments[i].date) = getFullYear(due)
        /\ getMonth(QPayments[i].date) = getMonth(due)

\* C24: when getNextLoanPayment reports installment k next due, no payment
\* summed into paidThisPeriod is also a payment whose (year, month) bucket
\* marked an earlier installment j < k as paid.
C24_NoPaymentCreditedTwice ==
    (NextRan /\ ~result.value.isPaidOff) =>
        \A i \in QPeriodPayments :
            \A j \in 1..(result.value.paymentNumber - 1) : ~InBucketOf(i, j)

----------------------------------------------------------------------------
(* The next installment according to each handler *)

\* what the other handler returns for the car, the payments and the time of
\* the last request
QDetailsValue == LoanDetailsValue(QCar, QPayments, result.at)
QNextValue == NextLoanPaymentValue(QCar, QPayments, result.at)

\* getLoanDetails agrees with a getNextLoanPayment result that reports an
\* installment due
DetailsAgreesWithNext ==
    (NextRan /\ ~result.value.isPaidOff) =>
        /\ ~QDetailsValue.isNull
        /\ ~QDetailsValue.isPaidOff
        /\ QDetailsValue.nextPaymentDate = Some(result.value.nextDueDate)
        /\ QDetailsValue.isOverdue = result.value.isOverdue

C25_WitnessCovered ==
    /\ DetailsRan
    /\ ~result.value.isPaidOff
    /\ Truthy(QCar.purchaseDate)
    /\ AllMonthsCovered
    /\ result.value.nextPaymentDate = None
    /\ QNextValue.isPaidOff

----------------------------------------------------------------------------
(* The results as time advances *)

\* a step in which only the clock moves on
TimeAdvances == now' > now /\ cars' = cars /\ expenses' = expenses

\* the cars either handler computes a result for
NextCars == {c \in DOMAIN cars : NextHasLoanInfo(cars[c])}
DetailsCars == {c \in DOMAIN cars : DetailsHasLoanInfo(cars[c])}

\* the result of getNextLoanPayment for car c is the same at the later
\* time, but for isOverdue, which does not go from true to false
NextResultKept(c) ==
    LET before == NextLoanPaymentValue(cars[c], LoanPaymentRows(c), now)
        after == NextLoanPaymentValue(cars[c], LoanPaymentRows(c), now')
    IN  /\ after.isPaidOff = before.isPaidOff
        /\ ~before.isPaidOff =>
            /\ after.nextDueDate = before.nextDueDate
            /\ after.paymentNumber = before.paymentNumber
            /\ after.amountDue = before.amountDue
            /\ after.remainingBalance = before.remainingBalance
            /\ before.isOverdue => after.isOverdue

\* the remainingBalance of getLoanDetails for car c is no smaller at the
\* later time
DetailsBalanceGrows(c) ==
    LoanDetailsValue(cars[c], LoanPaymentRows(c), now').remainingBalance
        >= LoanDetailsValue(cars[c], LoanPaymentRows(c), now).remainingBalance

C26_WitnessDetails ==
    /\ DetailsRan
    /\ result.at = now
    /\ now > NowStart
    /\ Truthy(QCar.purchaseDate)
    /\ Len(QPayments) > 0
    /\ result.value.remainingBalance
            > LoanDetailsValue(QCar, QPayments, NowStart).remainingBalance

----------------------------------------------------------------------------
(* Sharing, archiving and the listings, every user an owner or a target *)

\* the cars in the order the store returns them
RECURSIVE SeqOfSet(_)
SeqOfSet(S) ==
    IF S = {} THEN <<>>
    ELSE LET c == CHOOSE x \in S : TRUE IN <<c>> \o SeqOfSet(S \ {c})

\* cars.withIndex("by_owner_active", ownerId = u, isArchived = archived);
\* isArchived is undefined (FALSE here) until an archiving mutation sets it
OwnedCars(u, archived) ==
    SeqOfSet({c \in DOMAIN cars :
                cars[c].ownerId = u /\ cars[c].isArchived = archived})

\* carShares.withIndex("by_user", userId = u).collect()
SharesOf(u) == SelectSeq(carShares, LAMBDA r : r.userId = u)

\* an entry of the listing: the car with isShared and shareRole
ListedCar(c, isShared, shareRole) ==
    [id |-> c, isArchived |-> cars[c].isArchived,
     isShared |-> isShared, shareRole |-> shareRole]

\* a listing that keeps the archived cars shared with the user
AllCarsWithArchived(u) ==
    LET owned == OwnedCars(u, FALSE)
        shares == SharesOf(u)
    IN  [i \in 1..Len(owned) |-> ListedCar(owned[i], FALSE, "owner")]
        \o [i \in 1..Len(shares) |-> ListedCar(shares[i].carId, TRUE, "shared")]

\* allCars: the owned cars not archived, then the cars of the user's
\* shares that exist and are not archived
AllCars(u) ==
    LET owned == OwnedCars(u, FALSE)
        shares == SelectSeq(SharesOf(u),
                    LAMBDA r : r.carId \in DOMAIN cars /\ ~cars[r.carId].isArchived)
    IN  [i \in 1..Len(owned) |-> ListedCar(owned[i], FALSE, "owner")]
        \o [i \in 1..Len(shares) |-> ListedCar(shares[i].carId, TRUE, "shared")]

\* what a query without a car answers about
NoCar == ""

\* a getUserCars that lists the archived cars shared with the user too
GetUserCarsWithArchived(u) ==
    LET err == IF u = NoUser THEN "Not authenticated" ELSE ""
    IN  /\ result' = Response("getUserCars", u, NoCar, err,
                              IF err # "" THEN Void
                              ELSE [cars |-> AllCarsWithArchived(u)])
        /\ projector' = <<>>
        /\ UNCHANGED <<cars, carShares, expenses, now>>

GetUserCars(u) ==
    LET err == IF u = NoUser THEN "Not authenticated" ELSE ""
    IN  /\ result' = Response("getUserCars", u, NoCar, err,
                              IF err # "" THEN Void ELSE [cars |-> AllCars(u)])
        /\ projector' = <<>>
        /\ UNCHANGED <<cars, carShares, expenses, now>>

GetArchivedCars(u) ==
    LET err == IF u = NoUser THEN "Not authenticated" ELSE ""
        archived == OwnedCars(u, TRUE)
    IN  /\ result' =
            Response("getArchivedCars", u, NoCar, err,
                     IF err # "" THEN Void
                     ELSE [cars |-> [i \in 1..Len(archived) |->
                                [id |-> archived[i],
                                 isArchived |-> cars[archived[i]].isArchived]]])
        /\ projector' = <<>>
        /\ UNCHANGED <<cars, carShares, expenses, now>>

\* expenses.reduce((sum, expense) => sum + expense.amount, 0)
RECURSIVE SumAmount(_)
SumAmount(rows) ==
    IF rows = <<>> THEN 0 ELSE Head(rows).amount + SumAmount(Tail(rows))

\* the loop of getTotalUserExpenses over allCars; no car here has
\* downPayments
RECURSIVE TotalOver(_)
TotalOver(list) ==
    IF list = <<>> THEN 0
    ELSE SumAmount(SelectSeq(expenses, LAMBDA e : e.carId = Head(list).id))
            + TotalOver(Tail(list))

GetTotalUserExpenses(u) ==
    LET err == IF u = NoUser THEN "Not authenticated" ELSE ""
    IN  /\ result' =
            Response("getTotalUserExpenses", u, NoCar, err,
                     IF err # "" THEN Void
                     ELSE [totalExpenses |-> TotalOver(AllCars(u)),
                           carCount |-> Len(AllCars(u))])
        /\ projector' = <<>>
        /\ UNCHANGED <<cars, carShares, expenses, now>>

\* the users a share names: every user, the owner too, and an unknown one
AllShareTargets == Users \cup {NoSuchUser}

NextSharing ==
    \/ \E u \in Users : CreateCar(u)
    \/ \E u \in Users, c \in CarIds, make \in MakeArgs : UpdateCarBasicInfo(u, c, make)
    \/ \E u \in Users, c \in CarIds, reason \in ArchiveReasonArgs :
            ArchiveCar(u, c, reason)
    \/ \E u \in Users, c \in CarIds : MarkCarAsTotaled(u, c)
    \/ \E u \in Users, c \in CarIds : MarkCarAsSold(u, c)
    \/ \E u \in Users, c \in CarIds, t \in AllShareTargets : ShareCar(u, c, t)
    \/ \E u \in Users, c \in CarIds, t \in AllShareTargets : UnshareCar(u, c, t)
    \/ \E u \in Users, c \in CarIds, e \in AccessExpenseArgs : AddExpense(u, c, e)
    \/ \E u \in Callers : GetUserCars(u)
    \/ \E u \in Callers : GetArchivedCars(u)
    \/ \E u \in Callers : GetTotalUserExpenses(u)

SpecSharing == Init /\ [][NextSharing]_vars

----------------------------------------------------------------------------
(* Properties of sharing, archiving and the listings *)

\* the rows of carShares for car c and user t
ShareRows(c, t) ==
    {i \in DOMAIN carShares : carShares[i].carId = c /\ carShares[i].userId = t}

\* the step is a request of the car's owner
ByOwner == /\ result'.carId \in DOMAIN cars
           /\ cars[result'.carId].ownerId = result'.caller

\* C27: whatever shareCar and unshareCar calls were made, carShares holds at
\* most one row per (carId, userId); a shareCar of the owner for a user who
\* has a share fails with 'Car is already shared with this user' and adds
\* nothing, and an unshareCar for a user without a share changes nothing.
C27_OneSharePerPair ==
    /\ [](\A c \in CarIds, t \in Users : Cardinality(ShareRows(c, t)) <= 1)
    /\ [][/\ (result'.op = "shareCar" /\ ByOwner
                    /\ HasShare(result'.carId, result'.value.target)) =>
                /\ result'.error = "Car is already shared with this user"
                /\ carShares' = carShares
          /\ (result'.op = "unshareCar"
                    /\ ~HasShare(result'.carId, result'.value.target)) =>
                carShares' = carShares]_vars

\* C27 witness: the owner's second shareCar for the same user was refused,
\* the one row of the pair still there
C27_Witness ==
    /\ result.op = "shareCar"
    /\ result.error = "Car is already shared with this user"
    /\ Cardinality(ShareRows(result.carId, result.value.target)) = 1

\* C27 witness: an unshareCar of the owner for a user without a share, a
\* share of another user in the table
C27_WitnessUnshare ==
    /\ result.op = "unshareCar"
    /\ result.error = ""
    /\ ~HasShare(result.carId, result.value.target)
    /\ result.value.target \in Users
    /\ carShares # <<>>

\* the cars user u owns or has a share of, not archived
VisibleCars(u) == {c \in DOMAIN cars : HasAccess(u, c) /\ ~cars[c].isArchived}

\* the expenses of a set of cars, each row once
ExpensesOfCars(S) == SumAmount(SelectSeq(expenses, LAMBDA e : e.carId \in S))

\* C28: whatever createCar, shareCar and unshareCar calls were made,
\* getUserCars returns each car at most once for the user - as owned or as
\* shared, never both - and getTotalUserExpenses counts the expenses of each
\* car at most once.
C28_EachCarListedOnce ==
    /\ (result.op = "getUserCars" /\ result.error = "") =>
            \A i, j \in DOMAIN result.value.cars :
                result.value.cars[i].id = result.value.cars[j].id => i = j
    /\ (result.op = "getTotalUserExpenses" /\ result.error = "") =>
            /\ result.value.totalExpenses = ExpensesOfCars(VisibleCars(result.caller))
            /\ result.value.carCount = Cardinality(VisibleCars(result.caller))

\* C28, getUserCars alone
C28_ListedOnce ==
    (result.op = "getUserCars" /\ result.error = "") =>
        \A i, j \in DOMAIN result.value.cars :
            result.value.cars[i].id = result.value.cars[j].id => i = j

\* C28, getTotalUserExpenses alone
C28_CountedOnce ==
    (result.op = "getTotalUserExpenses" /\ result.error = "") =>
        result.value.totalExpenses = ExpensesOfCars(VisibleCars(result.caller))

\* the archived cars
ArchivedCars == {c \in DOMAIN cars : cars[c].isArchived}

\* the ids a listing returned
ListedIds == {result.value.cars[i].id : i \in DOMAIN result.value.cars}

\* C29: archiving is one-way - a car archived by archiveCar, markCarAsSold
\* or markCarAsTotaled stays archived under every later operation (and
\* keeps its owner) - and from then on no getUserCars lists it, for its
\* owner or a user it is shared with, and every getArchivedCars of its owner
\* lists it.
C29_ArchivingOneWay ==
    /\ [][\A c \in ArchivedCars :
            /\ c \in DOMAIN cars'
            /\ cars'[c].isArchived
            /\ cars'[c].ownerId = cars[c].ownerId]_vars
    /\ []((result.op = "getUserCars" /\ result.error = "") =>
            ListedIds \cap ArchivedCars = {})
    /\ []((result.op = "getArchivedCars" /\ result.error = "") =>
            \A c \in ArchivedCars :
                cars[c].ownerId = result.caller => c \in ListedIds)

\* C29 witness: a user with a share of an archived car asked for their
\* cars and the car is not listed
C29_Witness ==
    /\ result.op = "getUserCars"
    /\ result.error = ""
    /\ \E c \in ArchivedCars :
        /\ HasShare(c, result.caller)
        /\ cars[c].ownerId # result.caller
        /\ c \notin ListedIds

\* C29 witness: the owner of a car marked as sold, edited since, asked for
\* the archived cars and the car is listed
C29_WitnessArchived ==
    /\ result.op = "getArchivedCars"
    /\ result.error = ""
    /\ \E c \in ArchivedCars :
        /\ cars[c].ownerId = result.caller
        /\ cars[c].archivedReason = "sold"
        /\ cars[c].make = "Acura"
        /\ c \in ListedIds

----------------------------------------------------------------------------
(* The buyer accessories of a car and their expenses *)

AccessoryNames == {"mats", "rack"}
\* the accessories a request names
AccessoryArgs ==
    [name : AccessoryNames, price : {Dollars(10), Dollars(20)},
     dateAdded : {Feb20, Mar10}]
\* the accessoryIndex a request names, from 0; -1 and the larger ones are
\* out of range
AccessoryIndexArgs == (-1)..MaxExpenses

\* `Buyer accessory: ${name}`
Description(name) == <<"Buyer accessory: ", name>>

\* what the accessory mutations answer with: nothing; the record keeps the
\* index the request named
AccessoryResponse(index) == [void |-> TRUE, accessoryIndex |-> index]

\* the checks updateBuyerAccessory and removeBuyerAccessory open with
AccessoryError(u, c, index) ==
    IF AccessError(u, c) # "" THEN AccessError(u, c)
    ELSE IF index < 0 \/ index >= Len(cars[c].buyerAccessories)
         THEN "Invalid accessory index"
    ELSE ""

\* expenses.withIndex("by_car_category", carId, "accessories")
\*     .filter(description = `Buyer accessory: ${name}`): the ids of the rows
MatchingExpenses(c, name) ==
    {i \in DOMAIN expenses :
        /\ expenses[i].carId = c
        /\ expenses[i].category = "accessories"
        /\ expenses[i].description = Description(name)}

\* expenses.sort((a, b) => b.date - a.date)[0]: the latest date, and of
\* rows with that date the one created first (the sort is stable)
MostRecent(ids) ==
    CHOOSE k \in ids : \A j \in ids :
        \/ expenses[k].date > expenses[j].date
        \/ expenses[k].date = expenses[j].date /\ k <= j

AddBuyerAccessory(u, c, a) ==
    LET err == AccessError(u, c)
    IN  /\ Len(expenses) < MaxExpenses
        /\ cars' = IF err # "" THEN cars
                   ELSE [cars EXCEPT ![c].buyerAccessories = Append(@, a)]
        /\ expenses' =
            IF err # "" THEN expenses
            ELSE Append(expenses,
                    [carId |-> c, userId |-> u, category |-> "accessories",
                     description |-> Description(a.name),
                     amount |-> a.price, date |-> a.dateAdded] @@ NoSplit)
        /\ result' = Response("addBuyerAccessory", u, c, err, Void)
        /\ projector' = <<>>
        /\ UNCHANGED <<carShares, now>>

UpdateBuyerAccessory(u, c, index, a) ==
    LET err == AccessoryError(u, c, index)
        oldAccessory == cars[c].buyerAccessories[index + 1]
        ids == MatchingExpenses(c, oldAccessory.name)
    IN  /\ cars' = IF err # "" THEN cars
                   ELSE [cars EXCEPT ![c].buyerAccessories[index + 1] = a]
        /\ expenses' =
            IF err # "" \/ ids = {} THEN expenses
            ELSE [expenses EXCEPT ![MostRecent(ids)] =
                    [@ EXCEPT !.description = Description(a.name),
                              !.amount = a.price,
                              !.date = a.dateAdded]]
        /\ result' = Response("updateBuyerAccessory", u, c, err,
                              AccessoryResponse(index))
        /\ projector' = <<>>
        /\ UNCHANGED <<carShares, now>>

\* seq without its element at place k
RemoveAt(seq, k) == SubSeq(seq, 1, k - 1) \o SubSeq(seq, k + 1, Len(seq))

RemoveBuyerAccessory(u, c, index) ==
    LET err == AccessoryError(u, c, index)
        accessoryToRemove == cars[c].buyerAccessories[index + 1]
        ids == MatchingExpenses(c, accessoryToRemove.name)
    IN  /\ cars' = IF err # "" THEN cars
                   ELSE [cars EXCEPT ![c].buyerAccessories = RemoveAt(@, index + 1)]
        /\ expenses' =
            IF err # "" \/ ids = {} THEN expenses
            ELSE RemoveAt(expenses, MostRecent(ids))
        /\ result' = Response("removeBuyerAccessory", u, c, err,
                              AccessoryResponse(index))
        /\ projector' = <<>>
        /\ UNCHANGED <<carShares, now>>

NextAccessories ==
    \/ \E u \in Writers : CreateCar(u)
    \/ \E u \in Callers, c \in CarIds, a \in AccessoryArgs : AddBuyerAccessory(u, c, a)
    \/ \E u \in Callers, c \in CarIds, index \in AccessoryIndexArgs, a \in AccessoryArgs :
            UpdateBuyerAccessory(u, c, index, a)
    \/ \E u \in Callers, c \in CarIds, index \in AccessoryIndexArgs :
            RemoveBuyerAccessory(u, c, index)

SpecAccessories == Init /\ [][NextAccessories]_vars

\* the accessories of car c, and what its accessory expenses say: name,
\* price and date
AccessoryEntries(c) == cars[c].buyerAccessories
ExpenseEntries(c) ==
    LET rows == SelectSeq(expenses, LAMBDA e :
                    /\ e.carId = c
                    /\ e.category = "accessories"
                    /\ e.description[1] = "Buyer accessory: ")
    IN  [i \in 1..Len(rows) |->
            [name |-> rows[i].description[2], price |-> rows[i].amount,
             dateAdded |-> rows[i].date]]

\* how often entry a occurs in seq
Occurrences(seq, a) == Cardinality({i \in DOMAIN seq : seq[i] = a})

\* the accessories of the car and its accessory expenses match one to one
Corresponds(c) ==
    \A a \in AccessoryArgs :
        Occurrences(AccessoryEntries(c), a) = Occurrences(ExpenseEntries(c), a)

\* a request with an out-of-range index is refused and changes nothing
InvalidIndexRefused ==
    (/\ result'.op \in {"updateBuyerAccessory", "removeBuyerAccessory"}
     /\ AccessError(result'.caller, result'.carId) = ""
     /\ \/ result'.value.accessoryIndex < 0
        \/ result'.value.accessoryIndex >= Len(cars[result'.carId].buyerAccessories))
        => /\ result'.error = "Invalid accessory index"
           /\ cars' = cars
           /\ expenses' = expenses

\* C30: whatever addBuyerAccessory, updateBuyerAccessory and
\* removeBuyerAccessory calls were made on a car, its buyerAccessories and
\* its 'Buyer accessory: <name>' expenses correspond one to one with equal
\* name, price and date, accessories of the same name included; a call with
\* an out-of-range accessoryIndex fails with 'Invalid accessory index' and
\* changes neither.
C30_AccessoriesMatchExpenses ==
    /\ [](\A c \in DOMAIN cars : Corresponds(c))
    /\ [][InvalidIndexRefused]_vars

\* C30, the out-of-range index alone
C30_InvalidIndexRefused == [][InvalidIndexRefused]_vars

====
